---- MODULE Spec2Model ----
(***************************************************************************)
(* Model of the Dejavas simulation engine                                  *)
(* (src/dejavas-backend/simulation/__init__.py, agents/__init__.py,        *)
(* llm_integration.py).                                                    *)
(*                                                                         *)
(* Real numbers (opinions, edge weights, influence scores, probabilities)  *)
(* are fixed-point integers in thousandths: 1.0 is Scale, 0.5 is 500.      *)
(* Products are truncated toward zero.                                     *)
(*                                                                         *)
(* Every call of Python's random module reads one cell of a random tape    *)
(* that is drawn nondeterministically when the process starts (the seed);  *)
(* each tape is one sequence of outcomes the generator can produce.        *)
(***************************************************************************)
EXTENDS Integers, Sequences, FiniteSets, TLC

VARIABLES
    network_topology,   \* AdvancedSimulator.network_topology / InfluenceGraph.topology
    llm_available,      \* LLMIntegration.llm_available
    llm_answers,        \* number of analyses the language model has answered so far
    random_tape,        \* the outcomes of the random module in this process
    agents,             \* agents[r]: the list `agents` of run r (the Agent objects)
    sim_agents,         \* AdvancedSimulator.agents: name -> Agent object
    ig_agents,          \* InfluenceGraph.agents: insertion-ordered dict name -> Agent object
    ig_edges,           \* InfluenceGraph.graph edges, in insertion order
    round_history,      \* AdvancedSimulator.round_history
    run,                \* run[r]: local variables of the r-th run_simulation call
    pop_config,         \* create_agent_population: argument `config`
    pop_result,         \* create_agent_population: what the call returned
    query,              \* the last query made of the influence graph, with its outcome
    final_agents,       \* the agent list the report functions are called with
    final_report,       \* what the report functions returned for final_agents
    reasoning_log,      \* every reasoning process_feature appended to the agent under test
    simulations,        \* main.py: the session store `simulations`
    response,           \* main.py: the last request and the answer to it
    completed,          \* per session, the result of the simulate/rerun that completed last
    enabled             \* LangGraphSimulator.enabled

vars == <<network_topology, llm_available, llm_answers, random_tape, agents,
          sim_agents, ig_agents, ig_edges, round_history, run, pop_config, pop_result,
          query, final_agents, final_report, reasoning_log,
          simulations, response, completed, enabled>>

\* what is fixed when the process starts
envVars == <<network_topology, llm_available, random_tape>>

\* what the endpoints of main.py use
apiVars == <<simulations, response, completed, enabled>>

\* what the calls made outside run_simulation use
popVars == <<pop_config, pop_result, query, final_agents, final_report, reasoning_log,
             apiVars>>

----------------------------------------------------------------------------
(* Bounds of the model *)

PopSize     == 3    \* population size of a modelled run (stands for total_agents)
MaxRuns     == 2    \* run_simulation calls on the one simulator instance
MaxRounds   == 2    \* num_rounds ranges over 0..MaxRounds
MaxFeatures == 2    \* the brief holds 0..MaxFeatures features
TapeLen     == 3    \* cells of the random tape
TapeMax     == 1    \* a tape cell holds 0..TapeMax
MaxDispatch == 2    \* analysis fan-outs (round x feature steps) over all runs together
MaxLLMAnswers == 1  \* analyses answered by the language model; the others fall back

(* Program constants *)

total_agents      == 20     \* create_agent_population: total_agents
InitialOpinion    == 500    \* Agent.__init__: current_opinion = 0.5
MemoryCap         == 10     \* Agent.process_feature: len(self.memory) > 10
DefaultTokens     == 100    \* AgentGenome.__init__: attention_tokens default
InfluencerTokens  == 150    \* create_influencer_agent: attention_tokens=150
InfluencerDivisor == 5      \* _create_network_edges: len(sorted_agents) // 5

Scale == 10 * 100           \* fixed-point unit: the real number 1.0

Runs == 1..MaxRuns

Topologies == {"echo_chamber", "loose_network", "real_follower"}

----------------------------------------------------------------------------
(* main.py: the session store *)

MaxSessions == 2    \* sessions that upload_brief creates

\* session ids that upload_brief hands out
SessionIds == 1..MaxSessions

\* session ids a request can name; 0 is an id that is never handed out
RequestIds == 0..MaxSessions

\* "agent_config": None
NoConfig ==
    [saved |-> FALSE, customer_percentage |-> 0, competitor_percentage |-> 0,
     influencer_percentage |-> 0, internal_team_percentage |-> 0]

\* "simulation_result": None
NoResult == [present |-> FALSE, adoption_score |-> 0, top_objections |-> <<>>, must_fix |-> <<>>]

\* a session id that is not a key of `simulations`
NoSession ==
    [exists |-> FALSE, brief |-> <<>>, agent_config |-> NoConfig, simulation_result |-> NoResult]

\* no request has been answered yet
NoResponse ==
    [endpoint |-> "none", session_id |-> 0, config |-> NoConfig,
     status |-> 0, detail |-> "", body |-> NoResult]

\* the module-level state of main.py when no request has been made
ApiIdle ==
    /\ simulations = [id \in RequestIds |-> NoSession]
    /\ response = NoResponse
    /\ completed = [id \in RequestIds |-> NoResult]
    /\ enabled = FALSE

----------------------------------------------------------------------------
(* Arithmetic helpers *)

Min(a, b) == IF a <= b THEN a ELSE b
Max(a, b) == IF a >= b THEN a ELSE b
Abs(a)    == IF a >= 0 THEN a ELSE -a

\* Python int(): truncation toward zero of num/den, den > 0
Trunc(num, den) == IF num >= 0 THEN num \div den ELSE -((-num) \div den)

\* (faulty variant of Clamp01: the upper bound is not applied)
ClampBelowOnly(x) == Max(0, x)

\* max(0, min(1, x)) as used for every opinion update
Clamp01(x) == Max(0, Min(Scale, x))

RECURSIVE Flatten(_)
Flatten(ss) == IF ss = <<>> THEN <<>> ELSE Head(ss) \o Flatten(Tail(ss))

RECURSIVE SumSeq(_)
SumSeq(s) == IF s = <<>> THEN 0 ELSE Head(s) + SumSeq(Tail(s))

Range(s) == {s[k] : k \in 1..Len(s)}

----------------------------------------------------------------------------
(* The random module: one tape cell per call site *)

Tapes == [0..(TapeLen - 1) -> 0..TapeMax]

Rand(tape, site) == tape[site % TapeLen]

\* random.randint(a, b)
RandInt(a, b, u) == a + (u % (b - a + 1))

\* random.uniform(lo, hi)
Uniform(lo, hi, u) == lo + Trunc((hi - lo) * u, TapeMax)

\* random.random() < p  (p in thousandths); random() is u / (TapeMax + 1), in [0, 1)
RandomBelow(u, p) == u * Scale < p * (TapeMax + 1)

\* random.sample(population, k): k distinct elements of the list
Sample(population, k, u) ==
    [c \in 1..k |-> population[((u + c - 1) % Len(population)) + 1]]

----------------------------------------------------------------------------
(* agents/__init__.py: AgentFactory *)

NameBase  == 1000   \* create_*_agent via Agent.__init__: randint(1000, 9999)
NameTop   == 9999
RoleBase  == 100    \* create_internal_team_agent: randint(100, 999)
RoleTop   == 999

PersonalityTraits ==
    <<"early_adopter", "late_majority", "laggard", "influencer", "skeptic", "enthusiast">>

NewAgent(name, type, score, tokens, traits) ==
    [name |-> name, agent_type |-> type, influence_score |-> score,
     attention_tokens |-> tokens, personality_traits |-> traits,
     current_opinion |-> InitialOpinion, memory |-> <<>>]

create_customer_agent(tape, site) ==
    NewAgent(<<"customer", RandInt(NameBase, NameTop, Rand(tape, site))>>,
             "customer",
             Uniform(100, 600, Rand(tape, site + 1)),
             DefaultTokens,
             Range(Sample(PersonalityTraits,
                          RandInt(1, 3, Rand(tape, site + 2)),
                          Rand(tape, site + 3))))

create_competitor_agent(tape, site) ==
    NewAgent(<<"competitor", RandInt(NameBase, NameTop, Rand(tape, site))>>,
             "competitor",
             Uniform(600, 900, Rand(tape, site + 1)),
             DefaultTokens,
             {"skeptic"})

create_influencer_agent(tape, site) ==
    NewAgent(<<"influencer", RandInt(NameBase, NameTop, Rand(tape, site))>>,
             "influencer",
             Uniform(700, 1000, Rand(tape, site + 1)),
             InfluencerTokens,
             {"influencer"})

create_internal_team_agent(role, tape, site) ==
    NewAgent(<<role, RandInt(RoleBase, RoleTop, Rand(tape, site))>>,
             "internal_team",
             Uniform(400, 700, Rand(tape, site + 1)),
             DefaultTokens,
             {"enthusiast"})

----------------------------------------------------------------------------
(* simulation/__init__.py: AdvancedSimulator.create_agent_population *)

\* (faulty variant of RoleCount: the count is rounded to the nearest integer)
RoleCountRounded(percentage, total) == Trunc(2 * percentage * total + 100, 2 * 100)

\* int((config.get(key) / 100) * total)
RoleCount(percentage, total) == Trunc(percentage * total, 100)

\* the four counts computed before the creation loops
PopulationCounts(config, total) ==
    LET nc == RoleCount(config.customer_percentage, total)
        nk == RoleCount(config.competitor_percentage, total)
        ni == RoleCount(config.influencer_percentage, total)
    IN [customer |-> nc, competitor |-> nk, influencer |-> ni,
        internal_team |-> total - nc - nk - ni]

\* range(n): empty for n <= 0
PyRange(n) == IF n > 0 THEN n ELSE 0

InternalRoles == <<"PM", "SALES", "CX">>

\* the list of roles in creation order (one entry per agent created)
PopulationRoles(config, total) ==
    LET cnt == PopulationCounts(config, total)
    IN    [k \in 1..PyRange(cnt.customer)   |-> "customer"]
       \o [k \in 1..PyRange(cnt.competitor) |-> "competitor"]
       \o [k \in 1..PyRange(cnt.influencer) |-> "influencer"]
       \o [k \in 1..PyRange(cnt.internal_team) |-> InternalRoles[((k - 1) % 3) + 1]]

create_agent_population(config, total, tape) ==
    LET roles == PopulationRoles(config, total)
    IN [k \in 1..Len(roles) |->
          CASE roles[k] = "customer"   -> create_customer_agent(tape, 2 * k)
            [] roles[k] = "competitor" -> create_competitor_agent(tape, 2 * k)
            [] roles[k] = "influencer" -> create_influencer_agent(tape, 2 * k)
            [] OTHER -> create_internal_team_agent(roles[k], tape, 2 * k)]

----------------------------------------------------------------------------
(* simulation/__init__.py: InfluenceGraph *)

\* An Agent object is named by <<run, index>>; heap[r][i] is its current state.
AgentAt(heap, ref) == heap[ref[1]][ref[2]]

\* dict assignment d[name] = ref on an insertion-ordered dict
DictPut(d, name, ref) ==
    IF \E k \in 1..Len(d) : d[k].name = name
    THEN [k \in 1..Len(d) |-> IF d[k].name = name THEN [name |-> name, ref |-> ref] ELSE d[k]]
    ELSE Append(d, [name |-> name, ref |-> ref])

DictKeys(d) == {d[k].name : k \in 1..Len(d)}

DictGet(d, name) == (CHOOSE k \in 1..Len(d) : d[k].name = name)

\* nx.DiGraph.add_edge(src, dst, weight=w): a second add of the same pair re-weights it
AddEdge(edges, e) ==
    IF \E k \in 1..Len(edges) : edges[k].src = e.src /\ edges[k].dst = e.dst
    THEN [k \in 1..Len(edges) |->
            IF edges[k].src = e.src /\ edges[k].dst = e.dst THEN e ELSE edges[k]]
    ELSE Append(edges, e)

RECURSIVE AddEdges(_, _)
AddEdges(edges, new) ==
    IF new = <<>> THEN edges ELSE AddEdges(AddEdge(edges, Head(new)), Tail(new))

\* for agent in agents: self.agents[agent.name] = agent; self.graph.add_node(...)
RECURSIVE PutAgents(_, _, _, _)
PutAgents(d, list, r, i) ==
    IF i > Len(list) THEN d
    ELSE PutAgents(DictPut(d, list[i].name, <<r, i>>), list, r, i + 1)

\* (faulty variant of EchoConnects: the i != j test is missing)
EchoConnectsAnyPair(i, j, similarity, u) ==
    RandomBelow(u, (similarity * 3) \div 10)

\* ECHO_CHAMBER: if i != j ... if random.random() < similarity * 0.3
EchoConnects(i, j, similarity, u) ==
    i # j /\ RandomBelow(u, (similarity * 3) \div 10)

\* ECHO_CHAMBER branch of _create_network_edges
EchoEdges(d, heap, tape) ==
    LET m     == Len(d)
        op(k) == AgentAt(heap, d[k].ref).current_opinion
        similarity(i, j) == Scale - Abs(op(i) - op(j))
        row(i) == SelectSeq(
                    [j \in 1..m |->
                       [src |-> d[i].name, dst |-> d[j].name,
                        weight |-> similarity(i, j),
                        keep |-> EchoConnects(i, j, similarity(i, j),
                                              Rand(tape, i * m + j))]],
                    LAMBDA e : e.keep)
    IN Flatten([i \in 1..m |->
                  [k \in 1..Len(row(i)) |->
                     [src |-> row(i)[k].src, dst |-> row(i)[k].dst,
                      weight |-> row(i)[k].weight]]])

\* LOOSE_NETWORK branch of _create_network_edges
LooseEdges(d, tape) ==
    LET m == Len(d)
        others(i) == SelectSeq([k \in 1..m |-> d[k].name], LAMBDA n : n # d[i].name)
        num_connections(i) == RandInt(2, 4, Rand(tape, 3 * i))
        connections(i) == Sample(others(i), Min(num_connections(i), m - 1),
                                 Rand(tape, 3 * i + 1))
    IN Flatten([i \in 1..m |->
                  [c \in 1..Len(connections(i)) |->
                     [src |-> d[i].name, dst |-> connections(i)[c],
                      weight |-> Uniform(100, 1000, Rand(tape, 3 * i + 1 + c))]]])

\* sorted(agent_names, key=influence_score, reverse=True): stable, descending
SortedByInfluence(d, heap) ==
    LET m == Len(d)
        score(k) == AgentAt(heap, d[k].ref).influence_score
        rank(k) == Cardinality({j \in 1..m : score(j) > score(k)})
                   + Cardinality({j \in 1..(k - 1) : score(j) = score(k)}) + 1
    IN [p \in 1..m |-> d[CHOOSE k \in 1..m : rank(k) = p].name]

\* REAL_FOLLOWER branch of _create_network_edges
NumInfluencers(m) == Max(1, m \div InfluencerDivisor)

RealFollowerEdges(d, heap, tape) ==
    LET sorted_agents == SortedByInfluence(d, heap)
        m == Len(sorted_agents)
        num_influencers == NumInfluencers(m)
        influencers == SubSeq(sorted_agents, 1, Min(num_influencers, m))
        followers == SubSeq(sorted_agents, Min(num_influencers, m) + 1, m)
        num_follows(f) == RandInt(1, Min(3, Len(influencers)), Rand(tape, 2 * f))
        followed(f) == Sample(influencers, num_follows(f), Rand(tape, 2 * f + 1))
        weight(name) == AgentAt(heap, d[DictGet(d, name)].ref).influence_score
    IN Flatten([f \in 1..Len(followers) |->
                  [c \in 1..Len(followed(f)) |->
                     [src |-> followers[f], dst |-> followed(f)[c],
                      weight |-> weight(followed(f)[c])]]])

_create_network_edges(topology, d, edges, heap, tape) ==
    CASE topology = "echo_chamber"  -> AddEdges(edges, EchoEdges(d, heap, tape))
      [] topology = "loose_network" -> AddEdges(edges, LooseEdges(d, tape))
      [] topology = "real_follower" -> AddEdges(edges, RealFollowerEdges(d, heap, tape))

\* get_influencers: list(self.graph.predecessors(agent_name)), in insertion order
get_influencers(edges, name) ==
    LET into == SelectSeq(edges, LAMBDA e : e.dst = name)
    IN [k \in 1..Len(into) |-> into[k].src]

\* get_followers: list(self.graph.successors(agent_name))
get_followers(edges, name) ==
    LET out == SelectSeq(edges, LAMBDA e : e.src = name)
    IN [k \in 1..Len(out) |-> out[k].dst]

\* calculate_influence_flow: the edge weight, 0.0 if there is no edge
calculate_influence_flow(edges, source, target) ==
    IF \E k \in 1..Len(edges) : edges[k].src = source /\ edges[k].dst = target
    THEN edges[CHOOSE k \in 1..Len(edges) :
                 edges[k].src = source /\ edges[k].dst = target].weight
    ELSE 0

----------------------------------------------------------------------------
(* llm_integration.py: the Feature-Analysis backend *)

\* The k-th feature of a brief: the number of positive and of negative keywords
\* in its title/description, and whether the description exceeds 100 characters.
Feature(k) ==
    IF k % 2 = 1 THEN [title |-> k, positive |-> 3, negative |-> 0, long |-> FALSE]
                 ELSE [title |-> k, positive |-> 0, negative |-> 2, long |-> TRUE]

Brief(nf) == [k \in 1..nf |-> Feature(k)]

\* EnhancedMockAI._calculate_personality_modifier
_calculate_personality_modifier(traits) ==
    LET modifier == Scale
                    + (IF "early_adopter" \in traits THEN 300 ELSE 0)
                    - (IF "skeptic" \in traits THEN 400 ELSE 0)
                    + (IF "enthusiast" \in traits THEN 200 ELSE 0)
                    - (IF "laggard" \in traits THEN 300 ELSE 0)
    IN Max(300, Min(2000, modifier))

\* EnhancedMockAI._analyze_feature_characteristics
_analyze_feature_characteristics(feature, context, u) ==
    LET base_score == 100 * feature.positive - 150 * feature.negative
        modified   == Trunc(base_score * _calculate_personality_modifier(context.personality_traits),
                            Scale)
    IN Max(-Scale, Min(Scale, modified + Uniform(-50, 50, u)))

\* EnhancedMockAI._calculate_attention_spend
_calculate_attention_spend(feature, context, feature_score) ==
    LET base_spend == 15
                      + (IF Abs(feature_score) > 500 THEN 10 ELSE 0)
                      + (CASE context.role = "competitor" -> 5
                           [] context.role = "influencer" -> 8
                           [] OTHER -> 0)
                      + (IF feature.long THEN 5 ELSE 0)
    IN Min(base_spend, context.attention_tokens)

\* EnhancedMockAI.analyze_feature
analyze_feature(feature, context, u) ==
    LET feature_score == _analyze_feature_characteristics(feature, context, u)
    IN [opinion_shift    |-> feature_score,
        reasoning        |-> <<"mock", feature.title>>,
        influence_impact |-> context.influence_score,
        attention_spent  |-> _calculate_attention_spend(feature, context, feature_score)]

\* What the language model may answer (AgentResponse): any float and any int;
\* the values below include shifts outside [-1, 1] and a spend above the budget.
LLMResponses ==
    { [opinion_shift |-> 1300, attention_spent |-> 30,  influence_impact |-> 800],
      [opinion_shift |-> -700, attention_spent |-> 120, influence_impact |-> 0] }

\* None, as _get_llm_analysis returns it
NoAnalysis ==
    [opinion_shift |-> 0, reasoning |-> <<"none", 0>>,
     influence_impact |-> 0, attention_spent |-> 0]

\* an exception that leaves analyze_feature_as_agent
AnalysisError ==
    [opinion_shift |-> 0, reasoning |-> <<"error", 0>>,
     influence_impact |-> 0, attention_spent |-> 0]

\* LLMIntegration._get_llm_analysis: the analyses it can return, and None when
\* building the prompt or the call to the language model raised
_get_llm_analysis(feature) ==
    { [opinion_shift    |-> resp.opinion_shift,
       reasoning        |-> <<"llm", feature.title>>,
       influence_impact |-> resp.influence_impact,
       attention_spent  |-> resp.attention_spent] : resp \in LLMResponses }
        \cup {NoAnalysis}

\* (faulty variant of analyze_feature_as_agent: a failed LLM path is not
\* replaced by the mock, the failure reaches the caller)
AnalyzeWithoutFallback(available, feature, context, u) ==
    IF available
    THEN {IF analysis # NoAnalysis THEN analysis ELSE AnalysisError :
             analysis \in _get_llm_analysis(feature)}
    ELSE {analyze_feature(feature, context, u)}

\* LLMIntegration.analyze_feature_as_agent: the set of outcomes of a call.
\* With the LLM available, the call returns the LLM's analysis if there is one;
\* in every other case it returns the mock's.
analyze_feature_as_agent(available, feature, context, u) ==
    IF available
    THEN {IF analysis # NoAnalysis THEN analysis ELSE analyze_feature(feature, context, u) :
             analysis \in _get_llm_analysis(feature)}
    ELSE {analyze_feature(feature, context, u)}

----------------------------------------------------------------------------
(* agents/__init__.py: Agent.process_feature *)

\* AgentContext built before the backend is awaited
AgentContext(agent) ==
    [role |-> agent.agent_type, influence_score |-> agent.influence_score,
     personality_traits |-> agent.personality_traits,
     current_opinion |-> agent.current_opinion,
     attention_tokens |-> agent.attention_tokens]

\* (faulty variant of Remember: the newest entry is dropped, self.memory.pop())
RememberDropsNewest(memory, reasoning) ==
    LET appended == Append(memory, reasoning)
    IN IF Len(appended) > MemoryCap THEN SubSeq(appended, 1, MemoryCap) ELSE appended

\* self.memory.append(reasoning); if len(self.memory) > 10: self.memory.pop(0)
Remember(memory, reasoning) ==
    LET appended == Append(memory, reasoning)
    IN IF Len(appended) > MemoryCap THEN Tail(appended) ELSE appended

\* the state update of process_feature after the backend returned `analysis`
ApplyAnalysis(agent, analysis) ==
    [agent EXCEPT
        !.current_opinion  = Clamp01(agent.current_opinion + analysis.opinion_shift),
        !.attention_tokens = agent.attention_tokens - analysis.attention_spent,
        !.memory           = Remember(agent.memory, analysis.reasoning)]

\* (faulty variant of WriteBack: the attention budget lives in an object the agents share)
WriteBackShared(heap, r, i, updated) ==
    [heap EXCEPT ![r] = [j \in 1..Len(heap[r]) |->
        IF j = i THEN updated
        ELSE [heap[r][j] EXCEPT !.attention_tokens = updated.attention_tokens]]]

\* process_feature assigns to self.current_opinion, self.genome.attention_tokens
\* and self.memory: the objects of agent i of run r, and no others
WriteBack(heap, r, i, updated) == [heap EXCEPT ![r][i] = updated]

\* the dict process_feature returns (built from the updated agent)
InteractionRecord(agent, analysis) ==
    [agent_name       |-> agent.name,
     agent_type       |-> agent.agent_type,
     opinion          |-> agent.current_opinion,
     tokens_spent     |-> analysis.attention_spent,
     reasoning        |-> analysis.reasoning,
     influence_impact |-> analysis.influence_impact]

----------------------------------------------------------------------------
(* simulation/__init__.py: AdvancedSimulator.run_simulation and _run_single_round *)

\* role-percentage configurations given to the modelled runs
RunConfigs ==
    { [customer_percentage |-> 70, competitor_percentage |-> 0,
       influencer_percentage |-> 0, internal_team_percentage |-> 30],
      [customer_percentage |-> 0, competitor_percentage |-> 34,
       influencer_percentage |-> 34, internal_team_percentage |-> 32] }

\* <<num_rounds, number of features>> of the modelled calls; a call that
\* dispatches no analysis has no round and one feature, or one round and no feature
RunShapes ==
    {s \in (0..MaxRounds) \X (0..MaxFeatures) : s[1] * s[2] = 0 => s[1] + s[2] = 1}

\* no population has been returned by create_agent_population yet
NoPopulation == [returned |-> FALSE, agents |-> <<>>]

\* no query has been made of the influence graph yet
NoQuery == [kind |-> "none", source |-> <<>>, target |-> <<>>,
            raised |-> FALSE, value |-> <<>>, again |-> <<>>]

\* the report functions have not been called yet
NoReport == [computed |-> FALSE, adoption_score |-> 0, must_fix |-> <<>>]

IdleRun ==
    [pc |-> "idle", brief |-> <<>>,
     num_rounds |-> 0, round_num |-> 0, feature |-> 0,
     interactions |-> <<>>, feature_interactions |-> <<>>,
     tasks |-> <<>>, agent_results |-> <<>>, i |-> 0,
     influencers |-> <<>>, k |-> 0, before |-> <<>>, report |-> <<>>]

Finished(r) == run[r].pc \in {"returned", "raised"}

\* the (round, feature) steps the calls made so far were asked to execute
StepsAsked == SumSeq([q \in Runs |-> run[q].num_rounds * Len(run[q].brief)])

\* self.agents = {agent.name: agent for agent in agents}
NameMap(list, r) ==
    [name \in {list[i].name : i \in 1..Len(list)} |->
        <<r, CHOOSE i \in 1..Len(list) :
                /\ list[i].name = name
                /\ \A j \in (i + 1)..Len(list) : list[j].name # name>>]

\* InfluenceGraph.add_agents
add_agents(topology, d, edges, heap, list, r, tape) ==
    LET d2 == PutAgents(d, list, r, 1)
    IN [agents |-> d2, edges |-> _create_network_edges(topology, d2, edges, heap, tape)]

\* run_simulation, up to the round loop: population, name map, graph, history reset
BeginRun(r) ==
    /\ run[r].pc = "idle"
    /\ \E config \in RunConfigs, shape \in RunShapes :
         /\ StepsAsked + shape[1] * shape[2] <= MaxDispatch
         /\ LET tape == [c \in 0..(TapeLen - 1) |-> Rand(random_tape, c + r)]
                list == create_agent_population(config, PopSize, tape)
                heap == [agents EXCEPT ![r] = list]
                g    == add_agents(network_topology, ig_agents, ig_edges, heap, list, r, tape)
            IN /\ agents' = heap
               /\ sim_agents' = NameMap(list, r)
               /\ ig_agents' = g.agents
               /\ ig_edges' = g.edges
               /\ round_history' = <<>>
               /\ run' = [run EXCEPT ![r] = [IdleRun EXCEPT
                               !.pc = "round_loop", !.brief = Brief(shape[2]),
                               !.num_rounds = shape[1]]]
    /\ UNCHANGED <<envVars, llm_answers, popVars>>

\* a call of run_simulation; calls on the one simulator instance follow one another
StartRun(r) ==
    /\ \A q \in Runs : q < r => Finished(q)
    /\ BeginRun(r)

\* for round_num in range(num_rounds): enter _run_single_round, or leave the loop
RoundLoop(r) ==
    /\ run[r].pc = "round_loop"
    /\ run' = [run EXCEPT ![r] =
                 IF @.round_num < @.num_rounds
                 THEN [@ EXCEPT !.pc = "feature_loop", !.interactions = <<>>, !.feature = 1]
                 ELSE [@ EXCEPT !.pc = "finalize"]]
    /\ UNCHANGED <<envVars, llm_answers, agents, sim_agents, ig_agents, ig_edges,
                   round_history, popVars>>

\* for feature in features: one coroutine per agent is handed to asyncio.gather
Dispatch(r) ==
    /\ run[r].pc = "feature_loop"
    /\ run[r].feature <= Len(run[r].brief)
    /\ run' = [run EXCEPT ![r] = [@ EXCEPT
                 !.pc = "gather",
                 !.feature_interactions = <<>>,
                 !.tasks = [i \in 1..Len(agents[r]) |->
                              [st |-> "pending", context |-> <<>>, analysis |-> <<>>,
                               result |-> <<>>]],
                 !.before = agents[r]]]
    /\ UNCHANGED <<envVars, llm_answers, agents, sim_agents, ig_agents, ig_edges,
                   round_history, popVars>>

\* a task starts: process_feature builds the context and awaits the backend.
\* The event loop starts the tasks in the order gather received them. Without
\* the language model the backend never suspends, so a task runs to its end
\* before the next one starts.
TaskStart(r, i) ==
    /\ run[r].pc = "gather"
    /\ i \in 1..Len(run[r].tasks)
    /\ run[r].tasks[i].st = "pending"
    /\ \A j \in 1..(i - 1) :
          run[r].tasks[j].st = (IF llm_available THEN run[r].tasks[j].st ELSE "done")
    /\ \A j \in 1..(i - 1) : run[r].tasks[j].st # "pending"
    /\ run' = [run EXCEPT ![r].tasks[i] =
                 [@ EXCEPT !.st = "awaiting", !.context = AgentContext(agents[r][i])]]
    /\ UNCHANGED <<envVars, llm_answers, agents, sim_agents, ig_agents, ig_edges,
                   round_history, popVars>>

\* the backend returns to a task: process_feature updates its agent and returns
TaskComplete(r, i) ==
    /\ run[r].pc = "gather"
    /\ i \in 1..Len(run[r].tasks)
    /\ run[r].tasks[i].st = "awaiting"
    /\ \E analysis \in analyze_feature_as_agent(
                          llm_available /\ llm_answers < MaxLLMAnswers,
                          run[r].brief[run[r].feature],
                          run[r].tasks[i].context,
                          Rand(random_tape, r + 7 * run[r].round_num + 3 * run[r].feature + i)) :
         LET updated == ApplyAnalysis(agents[r][i], analysis)
         IN IF analysis = AnalysisError
            THEN \* the await raises: process_feature and gather pass the exception on
                 /\ run' = [run EXCEPT ![r].pc = "raised", ![r].tasks[i].st = "raised"]
                 /\ UNCHANGED <<agents, llm_answers>>
            ELSE /\ agents' = WriteBack(agents, r, i, updated)
                 /\ run' = [run EXCEPT ![r].tasks[i] =
                              [@ EXCEPT !.st = "done", !.analysis = analysis,
                                        !.result = InteractionRecord(updated, analysis)]]
                 /\ llm_answers' = IF analysis.reasoning[1] = "llm"
                                   THEN llm_answers + 1 ELSE llm_answers
    /\ UNCHANGED <<envVars, sim_agents, ig_agents, ig_edges, round_history, popVars>>

\* (faulty variant of AllTasksDone: the wait ends with the first task that completes)
AnyTaskDone(r) == \E i \in 1..Len(run[r].tasks) : run[r].tasks[i].st = "done"

\* asyncio.gather resolves when every awaitable handed to it has completed
AllTasksDone(r) == \A i \in 1..Len(run[r].tasks) : run[r].tasks[i].st = "done"

\* (faulty variant of GatherResults: the results come latest awaitable first)
GatherResultsReversed(tasks) ==
    [i \in 1..Len(tasks) |-> tasks[Len(tasks) + 1 - i].result]

\* asyncio.gather returns the results in the order of the awaitables it was
\* given, whatever the order in which they completed
GatherResults(tasks) == [i \in 1..Len(tasks) |-> tasks[i].result]

\* agent_results = await asyncio.gather(*agent_tasks) returns; the loop over the
\* results starts with the first agent's predecessors
GatherReturn(r) ==
    /\ run[r].pc = "gather"
    /\ AllTasksDone(r)
    /\ run' = [run EXCEPT ![r] = [@ EXCEPT
                 !.pc = "propagate",
                 !.agent_results = GatherResults(run[r].tasks),
                 !.i = 1,
                 !.influencers = IF Len(agents[r]) >= 1
                                 THEN get_influencers(ig_edges, agents[r][1].name)
                                 ELSE <<>>,
                 !.k = 1]]
    /\ UNCHANGED <<envVars, llm_answers, agents, sim_agents, ig_agents, ig_edges,
                   round_history, popVars>>

\* (faulty variant of ResultsExhausted: the loop over the results ends after the first agent)
ResultsCutShort(r) == run[r].i > 1

\* `for i, result in enumerate(agent_results)` has visited every result
ResultsExhausted(r) == run[r].i > Len(agents[r])

\* (faulty variant of PropagationShift: the damping factor is 2 instead of 0.1)
PropagationShiftDouble(influencer_opinion, own_opinion, influence_strength) ==
    Trunc(2 * (influencer_opinion - own_opinion) * influence_strength, Scale)

\* (influencer.current_opinion - agent.current_opinion) * influence_strength * 0.1
PropagationShift(influencer_opinion, own_opinion, influence_strength) ==
    Trunc((influencer_opinion - own_opinion) * influence_strength, Scale * 10)

\* one iteration of `for influencer_name in influencers`
PropagateStep(r) ==
    /\ run[r].pc = "propagate"
    /\ ~ResultsExhausted(r)
    /\ run[r].i <= Len(agents[r])
    /\ run[r].k <= Len(run[r].influencers)
    /\ LET i == run[r].i
           agent == agents[r][i]
           influencer_name == run[r].influencers[run[r].k]
       IN IF influencer_name \notin DOMAIN sim_agents
          THEN \* self.agents[influencer_name] raises KeyError
               /\ run' = [run EXCEPT ![r].pc = "raised"]
               /\ UNCHANGED agents
          ELSE LET influencer == AgentAt(agents, sim_agents[influencer_name])
                   influence_strength ==
                       calculate_influence_flow(ig_edges, influencer_name, agent.name)
                   opinion_shift ==
                       PropagationShift(influencer.current_opinion, agent.current_opinion,
                                        influence_strength)
               IN /\ agents' = [agents EXCEPT ![r][i].current_opinion =
                                   Clamp01(agent.current_opinion + opinion_shift)]
                  /\ run' = [run EXCEPT
                               ![r].agent_results[i].influence_impact = @ + Abs(opinion_shift),
                               ![r].k = @ + 1]
    /\ UNCHANGED <<envVars, llm_answers, sim_agents, ig_agents, ig_edges,
                   round_history, popVars>>

\* feature_interactions.append(result), then the next agent of the enumeration
AppendInteraction(r) ==
    /\ run[r].pc = "propagate"
    /\ ~ResultsExhausted(r)
    /\ run[r].i <= Len(agents[r])
    /\ run[r].k > Len(run[r].influencers)
    /\ run' = [run EXCEPT ![r] = [@ EXCEPT
                 !.feature_interactions = Append(@, run[r].agent_results[run[r].i]),
                 !.i = @ + 1,
                 !.influencers = IF run[r].i + 1 <= Len(agents[r])
                                 THEN get_influencers(ig_edges, agents[r][run[r].i + 1].name)
                                 ELSE <<>>,
                 !.k = 1]]
    /\ UNCHANGED <<envVars, llm_answers, agents, sim_agents, ig_agents, ig_edges,
                   round_history, popVars>>

\* interactions.extend(feature_interactions), then the next feature
ExtendInteractions(r) ==
    /\ run[r].pc = "propagate"
    /\ ResultsExhausted(r)
    /\ run' = [run EXCEPT ![r] = [@ EXCEPT
                 !.pc = "feature_loop",
                 !.interactions = @ \o run[r].feature_interactions,
                 !.feature = @ + 1]]
    /\ UNCHANGED <<envVars, llm_answers, agents, sim_agents, ig_agents, ig_edges,
                   round_history, popVars>>

\* (faulty variant of _apply_influence_effects: the hook draws the edges again,
\* from the opinions the round has left)
RebuildEdgesEachRound(topology, d, edges, heap, tape) ==
    _create_network_edges(topology, d, edges, heap, tape)

\* self._apply_influence_effects(agents, round_result['interactions']): pass
_apply_influence_effects(topology, d, edges, heap, tape) == edges

\* _run_single_round returns; self.round_history.append(round_result);
\* self._apply_influence_effects(...)
EndRound(r) ==
    /\ run[r].pc = "feature_loop"
    /\ run[r].feature > Len(run[r].brief)
    /\ round_history' = Append(round_history,
          [round |-> run[r].round_num + 1,
           interactions |-> run[r].interactions,
           average_opinion |->
              SumSeq([i \in 1..Len(agents[r]) |-> agents[r][i].current_opinion])
                 \div Len(agents[r])])
    /\ ig_edges' = _apply_influence_effects(network_topology, ig_agents, ig_edges,
                                            agents, random_tape)
    /\ run' = [run EXCEPT ![r] = [@ EXCEPT !.pc = "round_loop", !.round_num = @ + 1]]
    /\ UNCHANGED <<envVars, llm_answers, agents, sim_agents, ig_agents, popVars>>

\* [a for a in agents if a.genome.agent_type == role], as the list of indices
OfRole(list, role) == {i \in 1..Len(list) : list[i].agent_type = role}

RECURSIVE SumOver(_, _)
\* sum(f[i] for i in set)
SumOver(f, set) ==
    IF set = {} THEN 0
    ELSE LET i == CHOOSE j \in set : TRUE IN f[i] + SumOver(f, set \ {i})

\* (faulty variant of _calculate_adoption_score: the weighted sum is not divided
\* by the total weight)
AdoptionNotNormalised(list) ==
    LET customer_agents == OfRole(list, "customer")
    IN IF customer_agents = {} THEN 0
       ELSE (SumOver([i \in customer_agents |->
                        list[i].current_opinion * list[i].influence_score],
                     customer_agents) * 100) \div Scale

\* AdvancedSimulator._calculate_adoption_score, in thousandths of a point
_calculate_adoption_score(list) ==
    LET customer_agents == OfRole(list, "customer")
        total_weighted_opinion ==
            SumOver([i \in customer_agents |->
                       list[i].current_opinion * list[i].influence_score], customer_agents)
        total_weight ==
            SumOver([i \in customer_agents |-> list[i].influence_score], customer_agents)
    IN IF customer_agents = {} THEN 0
       ELSE IF total_weight > 0
            THEN (total_weighted_opinion * 100) \div total_weight
            ELSE 0

LowCustomerAdoption == "Low customer adoption - review feature-market fit"
CompetitiveVulnerability ==
    "Competitive vulnerability detected - strengthen differentiation"
InternalMisalignment ==
    "Internal team misalignment - address cross-functional concerns"

\* sum(opinions) / len(opinions) < bound, for a non-empty index set
\* (bound in thousandths)
MeanBelow(list, set, bound) ==
    SumOver([i \in set |-> list[i].current_opinion], set) < bound * Cardinality(set)

\* sum((op - mean) ** 2 for op in opinions) / len(opinions) > 0.1, with the
\* mean sum(opinions)/len(opinions): both sides multiplied by len ** 3
VarianceAboveTenth(list, set) ==
    LET n == Cardinality(set)
        total == SumOver([i \in set |-> list[i].current_opinion], set)
        squares == SumOver([i \in set |->
                              (n * list[i].current_opinion - total)
                                  * (n * list[i].current_opinion - total)], set)
    IN squares * 10 > n * n * n * Scale * Scale

\* (faulty variant of _identify_critical_issues: the three checks are chained
\* with elif, so a later check is skipped when an earlier one has fired)
IssuesChained(list) ==
    LET customers == OfRole(list, "customer")
        competitors == OfRole(list, "competitor")
        internals == OfRole(list, "internal_team")
    IN IF customers # {} /\ MeanBelow(list, customers, 500)
       THEN <<LowCustomerAdoption>>
       ELSE IF competitors # {} /\ MeanBelow(list, competitors, 300)
            THEN <<CompetitiveVulnerability>>
            ELSE IF internals # {} /\ VarianceAboveTenth(list, internals)
                 THEN <<InternalMisalignment>>
                 ELSE <<>>

\* AdvancedSimulator._identify_critical_issues
_identify_critical_issues(list) ==
    LET customers == OfRole(list, "customer")
        competitors == OfRole(list, "competitor")
        internals == OfRole(list, "internal_team")
    IN    (IF customers # {} /\ MeanBelow(list, customers, 500)
           THEN <<LowCustomerAdoption>> ELSE <<>>)
       \o (IF competitors # {} /\ MeanBelow(list, competitors, 300)
           THEN <<CompetitiveVulnerability>> ELSE <<>>)
       \o (IF internals # {} /\ VarianceAboveTenth(list, internals)
           THEN <<InternalMisalignment>> ELSE <<>>)

\* the part of the report that is computed from the final agent states
FinalReport(list) ==
    [adoption_score |-> _calculate_adoption_score(list),
     must_fix |-> _identify_critical_issues(list)]

\* [i for r in self.round_history for i in r['interactions']]
AllInteractions(history) == Flatten([h \in 1..Len(history) |-> history[h].interactions])

\* (faulty variant of _calculate_engagement_density: a record counts as a pair
\* as soon as it names its agent)
EngagementByAgent(interactions) ==
    IF interactions = <<>> THEN 0
    ELSE LET unique_pairs ==
                 { <<interactions[k].agent_name>> :
                     k \in {c \in 1..Len(interactions) :
                               "agent_name" \in DOMAIN interactions[c]} }
         IN (Cardinality(unique_pairs) * Scale) \div Max(Len(interactions), 1)

\* ArenaHealthMetrics._calculate_engagement_density, in thousandths
_calculate_engagement_density(interactions) ==
    IF interactions = <<>> THEN 0
    ELSE LET unique_pairs ==
                 { {interactions[k].agent_name, interactions[k].target_agent} :
                     k \in {c \in 1..Len(interactions) :
                               /\ "agent_name" \in DOMAIN interactions[c]
                               /\ "target_agent" \in DOMAIN interactions[c]} }
         IN (Cardinality(unique_pairs) * Scale) \div Max(Len(interactions), 1)

\* after the loop: the report is built from self.round_history and returned
Finish(r) ==
    /\ run[r].pc = "finalize"
    /\ run' = [run EXCEPT ![r] = [@ EXCEPT
                 !.pc = "returned",
                 !.report = [round_history |-> round_history,
                             engagement_density |->
                                _calculate_engagement_density(AllInteractions(round_history)),
                             adoption_score |-> FinalReport(agents[r]).adoption_score,
                             must_fix |-> FinalReport(agents[r]).must_fix]]]
    /\ UNCHANGED <<envVars, llm_answers, agents, sim_agents, ig_agents, ig_edges,
                   round_history, popVars>>

Init ==
    /\ network_topology \in Topologies
    /\ llm_available \in BOOLEAN
    /\ llm_answers = 0
    /\ random_tape \in Tapes
    /\ agents = [r \in Runs |-> <<>>]
    /\ sim_agents = <<>>
    /\ ig_agents = <<>>
    /\ ig_edges = <<>>
    /\ round_history = <<>>
    /\ run = [r \in Runs |-> IdleRun]
    /\ pop_config = "none"
    /\ pop_result = NoPopulation
    /\ query = NoQuery
    /\ final_agents = <<>>
    /\ final_report = NoReport
    /\ reasoning_log = <<>>
    /\ ApiIdle

Next ==
    \/ \E r \in Runs : StartRun(r)
    \/ \E r \in Runs : RoundLoop(r)
    \/ \E r \in Runs : Dispatch(r)
    \/ \E r \in Runs, i \in 1..PopSize : TaskStart(r, i)
    \/ \E r \in Runs, i \in 1..PopSize : TaskComplete(r, i)
    \/ \E r \in Runs : GatherReturn(r)
    \/ \E r \in Runs : PropagateStep(r)
    \/ \E r \in Runs : AppendInteraction(r)
    \/ \E r \in Runs : ExtendInteractions(r)
    \/ \E r \in Runs : EndRound(r)
    \/ \E r \in Runs : Finish(r)

Spec == Init /\ [][Next]_vars

----------------------------------------------------------------------------
(* create_agent_population on its own, with the program's population size *)

\* the percentages tried for each role
PercentValues == {-50, 0, 10, 25, 33, 50}

PopConfigs ==
    [customer_percentage : PercentValues, competitor_percentage : PercentValues,
     influencer_percentage : PercentValues, internal_team_percentage : PercentValues]

InitPop ==
    /\ network_topology = "loose_network"
    /\ llm_available = FALSE
    /\ llm_answers = 0
    /\ random_tape \in Tapes
    /\ agents = [r \in Runs |-> <<>>]
    /\ sim_agents = <<>>
    /\ ig_agents = <<>>
    /\ ig_edges = <<>>
    /\ round_history = <<>>
    /\ run = [r \in Runs |-> IdleRun]
    /\ pop_config \in PopConfigs
    /\ pop_result = NoPopulation
    /\ query = NoQuery
    /\ final_agents = <<>>
    /\ final_report = NoReport
    /\ reasoning_log = <<>>
    /\ ApiIdle

\* agents = self.create_agent_population(config)
CreatePopulation ==
    /\ pop_result = NoPopulation
    /\ pop_result' = [returned |-> TRUE,
                    agents |-> create_agent_population(pop_config, total_agents, random_tape)]
    /\ UNCHANGED <<envVars, llm_answers, agents, sim_agents, ig_agents, ig_edges,
                   round_history, run, pop_config, query, final_agents, final_report,
                   reasoning_log, apiVars>>

NextPop == CreatePopulation

SpecPop == InitPop /\ [][NextPop]_vars

----------------------------------------------------------------------------
(* InfluenceGraph on its own: add_agents calls followed by queries *)

\* a name that no agent is given
NotANode == <<"visitor", 0>>

\* nx.DiGraph.predecessors(n) / successors(n): NetworkXError when n is not a node
HasNode(d, name) == name \in DictKeys(d)

\* the outcome of a call: the value returned, or the exception raised
Returned(value) == [raised |-> FALSE, value |-> value]
Raised == [raised |-> TRUE, value |-> <<>>]

\* InfluenceGraph.get_influencers(agent_name), as a call
GetInfluencersCall(d, edges, name) ==
    IF HasNode(d, name) THEN Returned(get_influencers(edges, name)) ELSE Raised

\* InfluenceGraph.get_followers(agent_name), as a call
GetFollowersCall(d, edges, name) ==
    IF HasNode(d, name) THEN Returned(get_followers(edges, name)) ELSE Raised

\* InfluenceGraph.calculate_influence_flow(source, target), as a call:
\* has_edge is False for names that are not nodes
CalculateInfluenceFlowCall(d, edges, source, target) ==
    Returned(calculate_influence_flow(edges, source, target))

QueryCall(kind, d, edges, source, target) ==
    CASE kind = "get_influencers" -> GetInfluencersCall(d, edges, source)
      [] kind = "get_followers"   -> GetFollowersCall(d, edges, source)
      [] kind = "calculate_influence_flow" ->
            CalculateInfluenceFlowCall(d, edges, source, target)

QueryKinds == {"get_influencers", "get_followers", "calculate_influence_flow"}

\* the names queries are made with: names agents can be given, and one no agent has
QueryNames ==
    {<<"customer", NameBase>>, <<"customer", NameBase + 1>>, <<"influencer", NameBase>>,
     <<"PM", RoleBase>>, NotANode}

InitGraph ==
    /\ network_topology \in Topologies
    /\ llm_available = FALSE
    /\ llm_answers = 0
    /\ random_tape \in Tapes
    /\ agents = [r \in Runs |-> <<>>]
    /\ sim_agents = <<>>
    /\ ig_agents = <<>>
    /\ ig_edges = <<>>
    /\ round_history = <<>>
    /\ run = [r \in Runs |-> IdleRun]
    /\ pop_config = "none"
    /\ pop_result = NoPopulation
    /\ query = NoQuery
    /\ final_agents = <<>>
    /\ final_report = NoReport
    /\ reasoning_log = <<>>
    /\ ApiIdle

\* self.influence_graph.add_agents(agents), the r-th call on the instance
GraphAddAgents(r) ==
    /\ agents[r] = <<>>
    /\ \A q \in Runs : q < r => agents[q] # <<>>
    /\ \E config \in RunConfigs :
         LET tape == [c \in 0..(TapeLen - 1) |-> Rand(random_tape, c + r)]
             list == create_agent_population(config, PopSize, tape)
             heap == [agents EXCEPT ![r] = list]
             g    == add_agents(network_topology, ig_agents, ig_edges, heap, list, r, tape)
         IN /\ agents' = heap
            /\ ig_agents' = g.agents
            /\ ig_edges' = g.edges
    /\ UNCHANGED <<envVars, llm_answers, sim_agents, round_history, run, popVars>>

\* one query, made twice in a row
GraphQuery(kind, source, target) ==
    /\ LET first  == QueryCall(kind, ig_agents, ig_edges, source, target)
           second == QueryCall(kind, ig_agents, ig_edges, source, target)
       IN query' = [kind |-> kind, source |-> source, target |-> target,
                    raised |-> first.raised \/ second.raised,
                    value |-> first.value, again |-> second.value]
    /\ UNCHANGED <<envVars, llm_answers, agents, sim_agents, ig_agents, ig_edges,
                   round_history, run, pop_config, pop_result, final_agents,
                   final_report, reasoning_log, apiVars>>

NextGraph ==
    \/ \E r \in Runs : GraphAddAgents(r)
    \/ \E kind \in QueryKinds, source \in QueryNames, target \in QueryNames :
            GraphQuery(kind, source, target)

SpecGraph == InitGraph /\ [][NextGraph]_vars

----------------------------------------------------------------------------
(* The report functions on their own, over agent lists of any final state *)

MaxFinalAgents == 3

\* opinions of a final state, in thousandths
FinalOpinions == {0, 100, 300, 500, 900, 1000}

\* AgentGenome takes any influence_score, 0 included
FinalScores == {0, 100, 600}

FinalAgent ==
    [agent_type : {"customer", "competitor", "internal_team"},
     current_opinion : FinalOpinions, influence_score : FinalScores]

InitReport ==
    /\ network_topology = "loose_network"
    /\ llm_available = FALSE
    /\ llm_answers = 0
    /\ random_tape = [c \in 0..(TapeLen - 1) |-> 0]
    /\ agents = [r \in Runs |-> <<>>]
    /\ sim_agents = <<>>
    /\ ig_agents = <<>>
    /\ ig_edges = <<>>
    /\ round_history = <<>>
    /\ run = [r \in Runs |-> IdleRun]
    /\ pop_config = "none"
    /\ pop_result = NoPopulation
    /\ query = NoQuery
    /\ final_agents \in UNION {[1..n -> FinalAgent] : n \in 0..MaxFinalAgents}
    /\ final_report = NoReport
    /\ reasoning_log = <<>>
    /\ ApiIdle

\* adoption_score = self._calculate_adoption_score(agents);
\* must_fix = self._identify_critical_issues(agents)
ComputeReport ==
    /\ ~final_report.computed
    /\ final_report' = [computed |-> TRUE,
                        adoption_score |-> FinalReport(final_agents).adoption_score,
                        must_fix |-> FinalReport(final_agents).must_fix]
    /\ UNCHANGED <<envVars, llm_answers, agents, sim_agents, ig_agents, ig_edges,
                   round_history, run, pop_config, pop_result, query, final_agents,
                   reasoning_log, apiVars>>

NextReport == ComputeReport

SpecReport == InitReport /\ [][NextReport]_vars

----------------------------------------------------------------------------
(* agents/__init__.py: one agent under repeated process_feature calls *)

\* number of process_feature calls made on the agent (more than MemoryCap)
MaxCalls == 12

InitAgent ==
    /\ network_topology = "loose_network"
    /\ llm_available \in BOOLEAN
    /\ llm_answers = 0
    /\ random_tape \in Tapes
    /\ \E first \in {create_customer_agent(random_tape, 0),
                     create_influencer_agent(random_tape, 0)} :
          agents = [r \in Runs |-> IF r = 1 THEN <<first>> ELSE <<>>]
    /\ sim_agents = <<>>
    /\ ig_agents = <<>>
    /\ ig_edges = <<>>
    /\ round_history = <<>>
    /\ run = [r \in Runs |-> IdleRun]
    /\ pop_config = "none"
    /\ pop_result = NoPopulation
    /\ query = NoQuery
    /\ final_agents = <<>>
    /\ final_report = NoReport
    /\ reasoning_log = <<>>
    /\ ApiIdle

\* await agent.process_feature(feature): the context is built, the backend is
\* awaited, and the agent is updated with the analysis it returned
ProcessFeature(k) ==
    /\ Len(reasoning_log) < MaxCalls
    /\ \E analysis \in analyze_feature_as_agent(
                          llm_available /\ llm_answers < MaxLLMAnswers,
                          Feature(k),
                          AgentContext(agents[1][1]),
                          Rand(random_tape, Len(reasoning_log))) :
          IF analysis = AnalysisError
          THEN \* the await raises before the agent is touched
               UNCHANGED <<agents, reasoning_log, llm_answers>>
          ELSE /\ agents' = WriteBack(agents, 1, 1, ApplyAnalysis(agents[1][1], analysis))
               /\ reasoning_log' = Append(reasoning_log, analysis.reasoning)
               /\ llm_answers' = IF analysis.reasoning[1] = "llm"
                                 THEN llm_answers + 1 ELSE llm_answers
    /\ UNCHANGED <<envVars, sim_agents, ig_agents, ig_edges, round_history, run,
                   pop_config, pop_result, query, final_agents, final_report,
                   apiVars>>

NextAgent == \E k \in 1..MaxFeatures : ProcessFeature(k)

SpecAgent == InitAgent /\ [][NextAgent]_vars

----------------------------------------------------------------------------
(* main.py: the session endpoints *)

\* AgentConfig bodies sent to configure_agents (four int fields, any sign)
ApiConfigs ==
    { [customer_percentage |-> 25, competitor_percentage |-> 25,
       influencer_percentage |-> 25, internal_team_percentage |-> 25],
      [customer_percentage |-> 30, competitor_percentage |-> 30,
       influencer_percentage |-> 30, internal_team_percentage |-> 30],
      [customer_percentage |-> 50, competitor_percentage |-> 50,
       influencer_percentage |-> 0, internal_team_percentage |-> 0],
      [customer_percentage |-> 60, competitor_percentage |-> 20,
       influencer_percentage |-> 10, internal_team_percentage |-> 5],
      [customer_percentage |-> 50, competitor_percentage |-> 50,
       influencer_percentage |-> 50, internal_team_percentage |-> -50],
      [customer_percentage |-> 0, competitor_percentage |-> 0,
       influencer_percentage |-> 0, internal_team_percentage |-> 0] }

\* the config object as the store keeps it
Saved(config) ==
    [saved |-> TRUE,
     customer_percentage |-> config.customer_percentage,
     competitor_percentage |-> config.competitor_percentage,
     influencer_percentage |-> config.influencer_percentage,
     internal_team_percentage |-> config.internal_team_percentage]

\* raise HTTPException(status_code, detail) / a handler's return
Answer(endpoint, session_id, status, detail, body) ==
    [endpoint |-> endpoint, session_id |-> session_id, config |-> NoConfig,
     status |-> status, detail |-> detail, body |-> body]

\* the answer to a request that carried an AgentConfig body
AnswerTo(config, answer) == [answer EXCEPT !.config = Saved(config)]

\* session_id not in simulations
UnknownSession(store, session_id) == ~store[session_id].exists

InitApi ==
    /\ network_topology = "loose_network"
    /\ llm_available = FALSE
    /\ llm_answers = 0
    /\ random_tape = [c \in 0..(TapeLen - 1) |-> 0]
    /\ agents = [r \in Runs |-> <<>>]
    /\ sim_agents = <<>>
    /\ ig_agents = <<>>
    /\ ig_edges = <<>>
    /\ round_history = <<>>
    /\ run = [r \in Runs |-> IdleRun]
    /\ pop_config = "none"
    /\ pop_result = NoPopulation
    /\ query = NoQuery
    /\ final_agents = <<>>
    /\ final_report = NoReport
    /\ reasoning_log = <<>>
    /\ simulations = [id \in RequestIds |-> NoSession]
    /\ response = NoResponse
    /\ completed = [id \in RequestIds |-> NoResult]
    /\ enabled \in BOOLEAN

\* what no endpoint of the session API touches
simVars == <<envVars, llm_answers, agents, sim_agents, ig_agents, ig_edges, round_history,
             run, pop_config, pop_result, query, final_agents, final_report,
             reasoning_log, enabled>>

\* POST /upload-brief/: a fresh uuid4 becomes the key of a new session
upload_brief(nf) ==
    \E session_id \in SessionIds :
        /\ UnknownSession(simulations, session_id)
        /\ simulations' = [simulations EXCEPT ![session_id] =
                             [exists |-> TRUE, brief |-> Brief(nf),
                              agent_config |-> NoConfig, simulation_result |-> NoResult]]
        /\ response' = Answer("upload_brief", session_id, 200,
                              "Brief uploaded successfully", NoResult)
        /\ UNCHANGED <<simVars, completed>>

\* total = the sum of the four percentages
ConfigTotal(config) ==
    config.customer_percentage + config.competitor_percentage
        + config.influencer_percentage + config.internal_team_percentage

\* (faulty variant of PercentagesRejected: only a total above 100 is refused)
PercentagesRejectedAbove(config) == ConfigTotal(config) > 100

\* if total != 100
PercentagesRejected(config) == ConfigTotal(config) # 100

\* POST /configure-agents/{session_id}
configure_agents(session_id, config) ==
    /\ IF UnknownSession(simulations, session_id)
       THEN /\ response' = AnswerTo(config, Answer("configure_agents", session_id, 404,
                                                   "Session not found", NoResult))
            /\ UNCHANGED simulations
       ELSE IF PercentagesRejected(config)
       THEN /\ response' = AnswerTo(config, Answer("configure_agents", session_id, 400,
                                                   "Agent percentages must sum to 100",
                                                   NoResult))
            /\ UNCHANGED simulations
       ELSE /\ simulations' = [simulations EXCEPT ![session_id].agent_config = Saved(config)]
            /\ response' = AnswerTo(config, Answer("configure_agents", session_id, 200,
                                                   "Agent configuration saved", NoResult))
    /\ UNCHANGED <<simVars, completed>>

\* (faulty variant of ConfigMissing: the stored configuration is not looked at)
ConfigNeverMissing(config) == FALSE

\* if not config
ConfigMissing(config) == ~config.saved

\* create_agent_population starts with config.get('customer_percentage', 60),
\* and _run_single_round with brief.get('features', []): a dict has get(), the
\* pydantic models AgentConfig and Brief that simulate passes have not
HasGet(kind) == kind = "dict"

\* the type of the object the store holds under "agent_config"
ConfigKind(config) == IF config.saved THEN "AgentConfig" ELSE "NoneType"

\* the reports run_simulation can return to simulate
AdvancedResults ==
    { [present |-> TRUE, adoption_score |-> score, top_objections |-> <<>>, must_fix |-> fix] :
        score \in {0, 50 * Scale}, fix \in {<<>>, <<LowCustomerAdoption>>} }

\* POST /simulate/{session_id}
simulate(session_id) ==
    /\ IF UnknownSession(simulations, session_id)
       THEN /\ response' = Answer("simulate", session_id, 404, "Session not found", NoResult)
            /\ UNCHANGED <<simulations, completed>>
       ELSE IF ConfigMissing(simulations[session_id].agent_config)
       THEN /\ response' = Answer("simulate", session_id, 400,
                                  "Agent configuration missing", NoResult)
            /\ UNCHANGED <<simulations, completed>>
       ELSE IF ~HasGet(ConfigKind(simulations[session_id].agent_config))
       THEN \* AttributeError leaves run_simulation and the handler
            /\ response' = Answer("simulate", session_id, 500, "Internal Server Error", NoResult)
            /\ UNCHANGED <<simulations, completed>>
       ELSE \E result \in AdvancedResults :
               /\ simulations' = [simulations EXCEPT ![session_id].simulation_result = result]
               /\ completed' = [completed EXCEPT ![session_id] = result]
               /\ response' = Answer("simulate", session_id, 200, "", result)
    /\ UNCHANGED simVars

\* LangGraphSimulator.run: the tuple it returns, as the dict rerun stores
LangGraphRun(is_enabled, u) ==
    IF ~is_enabled
    THEN [present |-> TRUE, adoption_score |-> Uniform(0, 100 * Scale, u),
          top_objections |-> <<"Price too high", "Features not clear">>,
          must_fix |-> <<"UI/UX improvement", "Speed optimization">>]
    ELSE [present |-> TRUE, adoption_score |-> 50 * Scale,
          top_objections |-> <<"LLM integration placeholder">>,
          must_fix |-> <<"Implement real LangGraph flow">>]

\* POST /rerun/{session_id}
rerun_simulation(session_id) ==
    /\ IF UnknownSession(simulations, session_id)
       THEN /\ response' = Answer("rerun_simulation", session_id, 404,
                                  "Session not found", NoResult)
            /\ UNCHANGED <<simulations, completed>>
       ELSE IF ConfigMissing(simulations[session_id].agent_config)
       THEN /\ response' = Answer("rerun_simulation", session_id, 400,
                                  "Agent configuration missing", NoResult)
            /\ UNCHANGED <<simulations, completed>>
       ELSE \E u \in 0..TapeMax :
               LET result == LangGraphRun(enabled, u)
               IN /\ simulations' = [simulations EXCEPT ![session_id].simulation_result = result]
                  /\ completed' = [completed EXCEPT ![session_id] = result]
                  /\ response' = Answer("rerun_simulation", session_id, 200, "", result)
    /\ UNCHANGED simVars

\* GET /report/{session_id}
get_report(session_id) ==
    /\ IF UnknownSession(simulations, session_id)
       THEN response' = Answer("get_report", session_id, 404, "Session not found", NoResult)
       ELSE IF ~simulations[session_id].simulation_result.present
       THEN response' = Answer("get_report", session_id, 400,
                               "Simulation not completed", NoResult)
       ELSE response' = Answer("get_report", session_id, 200, "",
                               simulations[session_id].simulation_result)
    /\ UNCHANGED <<simVars, simulations, completed>>

NextApi ==
    \/ \E nf \in 1..MaxFeatures : upload_brief(nf)
    \/ \E session_id \in RequestIds, config \in ApiConfigs : configure_agents(session_id, config)
    \/ \E session_id \in RequestIds : simulate(session_id)
    \/ \E session_id \in RequestIds : rerun_simulation(session_id)
    \/ \E session_id \in RequestIds : get_report(session_id)

SpecApi == InitApi /\ [][NextApi]_vars

----------------------------------------------------------------------------
(* main.py: two requests that call run_simulation on the shared simulator *)

\* the event loop runs one coroutine at a time: a call gives way to another
\* only where it awaits, at asyncio.gather or after it has returned or raised
Suspended(q) == run[q].pc \in {"idle", "gather", "returned", "raised"}

\* no other call is between two of its await points
LoopFree(r) == \A q \in Runs \ {r} : Suspended(q)

\* a second request is served while the first call awaits its analysis tasks
StartDuringAwait(r) ==
    /\ \A q \in Runs : q < r => run[q].pc = "gather"
    /\ BeginRun(r)

InitOverlap ==
    /\ network_topology = "loose_network"
    /\ llm_available \in BOOLEAN
    /\ llm_answers = 0
    /\ random_tape \in Tapes
    /\ agents = [r \in Runs |-> <<>>]
    /\ sim_agents = <<>>
    /\ ig_agents = <<>>
    /\ ig_edges = <<>>
    /\ round_history = <<>>
    /\ run = [r \in Runs |-> IdleRun]
    /\ pop_config = "none"
    /\ pop_result = NoPopulation
    /\ query = NoQuery
    /\ final_agents = <<>>
    /\ final_report = NoReport
    /\ reasoning_log = <<>>
    /\ ApiIdle

NextOverlap ==
    \/ \E r \in Runs : LoopFree(r) /\ StartDuringAwait(r)
    \/ \E r \in Runs : LoopFree(r) /\ RoundLoop(r)
    \/ \E r \in Runs : LoopFree(r) /\ Dispatch(r)
    \/ \E r \in Runs, i \in 1..PopSize : LoopFree(r) /\ TaskStart(r, i)
    \/ \E r \in Runs, i \in 1..PopSize : LoopFree(r) /\ TaskComplete(r, i)
    \/ \E r \in Runs : LoopFree(r) /\ GatherReturn(r)
    \/ \E r \in Runs : LoopFree(r) /\ PropagateStep(r)
    \/ \E r \in Runs : LoopFree(r) /\ AppendInteraction(r)
    \/ \E r \in Runs : LoopFree(r) /\ ExtendInteractions(r)
    \/ \E r \in Runs : LoopFree(r) /\ EndRound(r)
    \/ \E r \in Runs : LoopFree(r) /\ Finish(r)

SpecOverlap == InitOverlap /\ [][NextOverlap]_vars

----------------------------------------------------------------------------
(* Properties *)

\* the call that is under way or was made last on the simulator instance
IsLatest(r) == run[r].pc # "idle" /\ \A q \in Runs : q > r => run[q].pc = "idle"

NamesOf(list) == {list[i].name : i \in 1..Len(list)}

\* C1: every agent's opinion lies in [0, 1] in every reachable state: after
\* every analysis update of process_feature and after every propagation step,
\* whatever shift the backend returned.
C1_OpinionInRange ==
    \A r \in Runs : \A i \in 1..Len(agents[r]) :
        /\ agents[r][i].current_opinion >= 0
        /\ agents[r][i].current_opinion <= Scale

\* C1 witness: a propagation step has been applied after an analysis whose
\* shift exceeded 1 was applied to an agent.
C1_Witness ==
    \E r \in Runs :
        /\ run[r].pc = "propagate"
        /\ run[r].k > 1
        /\ \E j \in 1..Len(run[r].tasks) : run[r].tasks[j].analysis.opinion_shift > Scale

\* C2: while the analysis call of any agent for the current feature is
\* outstanding, the call is still waiting in gather, no interaction of the
\* feature has been recorded and every agent's opinion is the one its own
\* analysis left (or its opinion at dispatch): no propagation step was applied.
C2_Barrier ==
    \A r \in Runs :
        (\E i \in 1..Len(run[r].tasks) : run[r].tasks[i].st # "done") =>
            /\ run[r].pc = "gather"
            /\ run[r].feature_interactions = <<>>
            /\ \A j \in 1..Len(run[r].tasks) :
                 agents[r][j].current_opinion =
                    IF run[r].tasks[j].st = "done"
                    THEN run[r].tasks[j].result.opinion
                    ELSE run[r].before[j].current_opinion

\* C2 witness: the tasks complete out of dispatch order: the first agent's
\* analysis is still awaited when a later agent's analysis has completed.
C2_Witness ==
    \E r \in Runs :
        /\ run[r].pc = "gather"
        /\ Len(run[r].tasks) >= 2
        /\ run[r].tasks[1].st = "awaiting"
        /\ \E j \in 2..Len(run[r].tasks) : run[r].tasks[j].st = "done"

\* C3: the (round, feature) steps of a run follow one another: when feature f
\* of a round is dispatched, gathered or propagated, the round's interaction
\* list holds one record per agent for each of the f - 1 earlier features, and
\* the history holds one complete round result, numbered 1, 2, ..., for each
\* earlier round.
C3_Sequential ==
    \A r \in Runs :
        run[r].pc \in {"round_loop", "feature_loop", "gather", "propagate", "finalize"} =>
            LET n == Len(agents[r])
            IN /\ Len(round_history) = run[r].round_num
               /\ \A j \in 1..Len(round_history) :
                    /\ round_history[j].round = j
                    /\ Len(round_history[j].interactions) = Len(run[r].brief) * n
               /\ run[r].pc \in {"feature_loop", "gather", "propagate"} =>
                    Len(run[r].interactions) = (run[r].feature - 1) * n
               /\ run[r].pc = "gather" => run[r].feature_interactions = <<>>
               /\ run[r].pc = "propagate" =>
                    Len(run[r].feature_interactions) = run[r].i - 1

\* C3 witness: the analysis of a second feature, or of a second round, is
\* being gathered.
C3_Witness ==
    \E r \in Runs :
        /\ run[r].pc = "gather"
        /\ run[r].feature = 2 \/ run[r].round_num = 1

\* C4: the step in which a task's analysis completes changes no agent but the
\* task's own; and throughout the concurrent phase, the barrier included, each
\* agent's state is its state at dispatch updated by its own analysis result
\* only (so it does not depend on the order of completion).
C4_OwnStateOnly ==
    /\ [](\A r \in Runs : run[r].pc = "gather" =>
            \A i \in 1..Len(run[r].tasks) :
               agents[r][i] = IF run[r].tasks[i].st = "done"
                              THEN ApplyAnalysis(run[r].before[i], run[r].tasks[i].analysis)
                              ELSE run[r].before[i])
    /\ [][\A r \in Runs : \A i \in 1..Len(run[r].tasks) :
            (/\ i <= Len(run'[r].tasks)
             /\ run[r].tasks[i].st = "awaiting"
             /\ run'[r].tasks[i].st = "done") =>
                \A q \in Runs : \A j \in 1..Len(agents[q]) :
                    <<q, j>> # <<r, i>> => agents'[q][j] = agents[q][j]]_vars

\* C4 witness: every task of a fan-out has completed, one of them with the
\* language model's answer, and the call has not left gather yet.
C4_Witness ==
    \E r \in Runs :
        /\ run[r].pc = "gather"
        /\ AllTasksDone(r)
        /\ \E i \in 1..Len(run[r].tasks) : run[r].tasks[i].analysis.reasoning[1] = "llm"

\* C5: on a reused simulator the influence graph of the latest call has exactly
\* that call's agents as nodes, no edge touches another name, and the call does
\* not fail on a predecessor that is missing from its name map.
C5_ReuseLikeFresh ==
    \A r \in Runs : IsLatest(r) =>
        /\ DictKeys(ig_agents) = NamesOf(agents[r])
        /\ \A e \in Range(ig_edges) :
              e.src \in NamesOf(agents[r]) /\ e.dst \in NamesOf(agents[r])
        /\ run[r].pc # "raised"

\* C6: no call ends with an exception, and a call that has returned reports
\* exactly num_rounds round results, numbered 1..num_rounds in order.
C6_RunReturnsAllRounds ==
    \A r \in Runs :
        /\ run[r].pc # "raised"
        /\ run[r].pc = "returned" =>
              /\ Len(run[r].report.round_history) = run[r].num_rounds
              /\ \A j \in 1..run[r].num_rounds :
                    run[r].report.round_history[j].round = j

\* C7: create_agent_population returns exactly total_agents (20) agents for
\* every configuration, and 5 agents of each role for {25, 25, 25, 25}.
C7_PopulationIsTotal ==
    pop_result.returned =>
        /\ Len(pop_result.agents) = total_agents
        /\ (\A f \in DOMAIN pop_config : pop_config[f] = 25) =>
              \A t \in {"customer", "competitor", "influencer", "internal_team"} :
                 Cardinality({k \in 1..Len(pop_result.agents) :
                                 pop_result.agents[k].agent_type = t}) = 5

\* C8: the population of a run holds no two agents of the same name, and the
\* simulator's name map and the influence graph have one entry per agent.
C8_NamesUnique ==
    \A r \in Runs : IsLatest(r) =>
        /\ \A i, j \in 1..Len(agents[r]) :
              i # j => agents[r][i].name # agents[r][j].name
        /\ Cardinality(DOMAIN sim_agents) = Len(agents[r])
        /\ Len(ig_agents) = Len(agents[r])

\* C9: for each topology, the graph has no self-loop and every edge weighs
\* more than 0 and at most 1.
C9_EdgesWellFormed ==
    \A e \in Range(ig_edges) :
        /\ e.src # e.dst
        /\ e.weight > 0
        /\ e.weight <= Scale

\* C9 witness: an echo-chamber graph holding an edge between agents whose
\* opinions differed when the edge was drawn (weight below 1).
C9_Witness ==
    /\ network_topology = "echo_chamber"
    /\ \E e \in Range(ig_edges) : e.weight < Scale

\* C10: real-follower topology: with the graph's agents sorted by descending
\* influence score and the top max(1, n div 5) taken as influencers, every
\* follower has 1 to 3 out-edges, each ending at an influencer and weighing
\* that influencer's score, and every edge runs from a follower to an influencer.
C10_RealFollowerShape ==
    (network_topology = "real_follower" /\ Len(ig_agents) > 0) =>
        LET sorted_agents == SortedByInfluence(ig_agents, agents)
            m == Len(sorted_agents)
            cut == Min(NumInfluencers(m), m)
            influencers == {sorted_agents[p] : p \in 1..cut}
            followers == {sorted_agents[p] : p \in (cut + 1)..m}
            out(n) == {e \in Range(ig_edges) : e.src = n}
            score(n) == AgentAt(agents, ig_agents[DictGet(ig_agents, n)].ref).influence_score
        IN /\ \A f \in followers :
                /\ Cardinality(out(f)) >= 1
                /\ Cardinality(out(f)) <= 3
                /\ \A e \in out(f) : e.dst \in influencers /\ e.weight = score(e.dst)
           /\ \A e \in Range(ig_edges) : e.src \in followers /\ e.dst \in influencers

\* C11: loose-network topology: every agent of the population, and every node
\* of the influence graph, has at least 2 and at most min(4, population - 1)
\* out-edges, none of them to itself (the out-neighbours of a node are distinct
\* by construction of the edge set).
C11_LooseOutDegree ==
    network_topology = "loose_network" =>
        \A r \in Runs : IsLatest(r) =>
            \A n \in NamesOf(agents[r]) \cup DictKeys(ig_agents) :
                LET out == {e \in Range(ig_edges) : e.src = n}
                IN /\ Cardinality(out) >= 2
                   /\ Cardinality(out) <= Min(4, Len(agents[r]) - 1)
                   /\ \A e \in out : e.dst # e.src

\* C12: the influence graph changes only in the step that starts a run (the
\* call of add_agents); that step comes before round 1 of the run, with no
\* round result in the history and every agent of the run's population at the
\* initial opinion, and a run that has started never starts again. No round,
\* analysis, propagation step or graph query changes a node or an edge.
C12_GraphBuiltOnce ==
    [][/\ (<<ig_agents, ig_edges>>' # <<ig_agents, ig_edges>>) =>
             \E r \in Runs : run[r].pc = "idle" /\ run'[r].pc # "idle"
       /\ \A r \in Runs :
             (run[r].pc = "idle" /\ run'[r].pc # "idle") =>
                 /\ run'[r].round_num = 0
                 /\ round_history' = <<>>
                 /\ NamesOf(agents'[r]) \subseteq DictKeys(ig_agents')
                 /\ \A i \in 1..Len(agents'[r]) :
                       agents'[r][i].current_opinion = InitialOpinion
       /\ \A r \in Runs : run[r].pc # "idle" => run'[r].pc # "idle"]_vars

\* C12 witness: a round of a run has ended, propagation has moved an opinion
\* away from the initial value, and the graph holds edges.
C12_Witness ==
    \E r \in Runs :
        /\ run[r].round_num >= 1
        /\ ig_edges # <<>>
        /\ \E i \in 1..Len(run[r].tasks) :
              /\ run[r].tasks[i].st = "done"
              /\ agents[r][i].current_opinion # run[r].tasks[i].result.opinion

\* C13: a query of the influence graph never raises, whatever names it is
\* given; get_influencers and get_followers return a list, which is empty for
\* a name that is not a node; calculate_influence_flow returns the weight of
\* the edge, or 0 when there is no such edge; the same call made again
\* returns the same value.
C13_QueriesNeverRaise ==
    query.kind # "none" =>
        /\ ~query.raised
        /\ query.again = query.value
        /\ (query.kind = "get_influencers" /\ ~HasNode(ig_agents, query.source)) =>
              query.value = <<>>
        /\ (query.kind = "get_followers" /\ ~HasNode(ig_agents, query.source)) =>
              query.value = <<>>
        /\ query.kind = "calculate_influence_flow" =>
              LET hit == {e \in Range(ig_edges) :
                            e.src = query.source /\ e.dst = query.target}
              IN IF hit = {} THEN query.value = 0
                 ELSE \A e \in hit : query.value = e.weight

\* the step appends agent i's record to the feature's interaction list of run r
AppendsRecord(r) ==
    /\ run[r].pc = "propagate"
    /\ run'[r].pc = "propagate"
    /\ Len(run'[r].feature_interactions) = Len(run[r].feature_interactions) + 1

\* C14: when an agent's interaction record is appended to the feature's
\* interaction list, the opinion stored in the record is the agent's
\* current opinion at that moment (after all its predecessor updates).
C14_RecordOpinionIsCurrent ==
    [][\A r \in Runs :
          AppendsRecord(r) =>
              run'[r].feature_interactions[Len(run'[r].feature_interactions)].opinion
                 = agents[r][run[r].i].current_opinion]_vars

\* C15: the influence_impact of an interaction record is the sum of the
\* absolute opinion changes that propagation caused in the interaction: it is
\* 0 when propagation starts, every propagation step adds the absolute change
\* of the agent's opinion in that step, and the record is appended with the sum.
C15_ImpactIsSumOfDeltas ==
    [][\A r \in Runs :
          /\ (run[r].pc = "gather" /\ run'[r].pc = "propagate") =>
                \A i \in 1..Len(run'[r].agent_results) :
                    run'[r].agent_results[i].influence_impact = 0
          /\ (run[r].pc = "propagate" /\ run'[r].pc = "propagate"
                /\ run'[r].i = run[r].i /\ run'[r].k = run[r].k + 1) =>
                run'[r].agent_results[run[r].i].influence_impact
                   - run[r].agent_results[run[r].i].influence_impact
                   = Abs(agents'[r][run[r].i].current_opinion
                           - agents[r][run[r].i].current_opinion)
          /\ AppendsRecord(r) =>
                run'[r].feature_interactions[Len(run'[r].feature_interactions)]
                   = run[r].agent_results[run[r].i]]_vars

\* C16: the adoption score lies in [0, 100]; it is the influence-weighted
\* mean opinion of the customer agents times 100 (here: the integer part, in
\* thousandths of a point, of 100 * sum(opinion * weight) / sum(weight)); it
\* is exactly 0 when there is no customer agent or the customers' total
\* weight is 0.
C16_AdoptionScore ==
    final_report.computed =>
        LET customers == {i \in 1..Len(final_agents) : final_agents[i].agent_type = "customer"}
            weight == SumOver([i \in customers |-> final_agents[i].influence_score], customers)
            weighted == SumOver([i \in customers |->
                                   final_agents[i].current_opinion
                                      * final_agents[i].influence_score], customers)
            score == final_report.adoption_score
        IN /\ score >= 0
           /\ score <= 100 * Scale
           /\ (customers = {} \/ weight = 0) => score = 0
           /\ weight > 0 =>
                 /\ score * weight <= 100 * weighted
                 /\ 100 * weighted < (score + 1) * weight

\* C16 witness: a score strictly between 0 and 100 computed from two customers
\* of different weights and different opinions.
C16_Witness ==
    /\ final_report.computed
    /\ final_report.adoption_score > 0
    /\ final_report.adoption_score < 100 * Scale
    /\ \E i, j \in 1..Len(final_agents) :
          /\ final_agents[i].agent_type = "customer"
          /\ final_agents[j].agent_type = "customer"
          /\ final_agents[i].influence_score # final_agents[j].influence_score
          /\ final_agents[i].current_opinion # final_agents[j].current_opinion

\* the opinions of the agents of a role in final_agents, by index
RoleIndices(role) == {i \in 1..Len(final_agents) : final_agents[i].agent_type = role}

OpinionSum(set) == SumOver([i \in set |-> final_agents[i].current_opinion], set)

OpinionSquares(set) ==
    SumOver([i \in set |-> final_agents[i].current_opinion
                             * final_agents[i].current_opinion], set)

\* C17: must_fix holds at most three messages, in the order customer,
\* competitor, internal, each present independently of the others: the
\* feature-market-fit message iff there are customers and their mean opinion
\* is below 0.5, the competitive-vulnerability message iff there are
\* competitors and their mean opinion is below 0.3, the misalignment message
\* iff there are internal-team agents and the variance of their opinions
\* (mean of squares minus square of mean) exceeds 0.1; so it is present for
\* internal opinions [0.9, 0.1, 0.9] and absent for [0.5, 0.5, 0.5].
C17_CriticalIssues ==
    final_report.computed =>
        LET cu == RoleIndices("customer")
            co == RoleIndices("competitor")
            it == RoleIndices("internal_team")
            n  == Cardinality(it)
            low == cu # {} /\ 2 * OpinionSum(cu) < Cardinality(cu) * Scale
            vulnerable == co # {} /\ 10 * OpinionSum(co) < 3 * Cardinality(co) * Scale
            misaligned ==
                it # {} /\ 10 * (n * OpinionSquares(it) - OpinionSum(it) * OpinionSum(it))
                              > n * n * Scale * Scale
            all == <<LowCustomerAdoption, CompetitiveVulnerability, InternalMisalignment>>
            present == [k \in 1..3 |-> (k = 1 /\ low) \/ (k = 2 /\ vulnerable)
                                          \/ (k = 3 /\ misaligned)]
            internal_opinions == [i \in 1..Len(final_agents) |->
                                     final_agents[i].current_opinion]
        IN /\ Len(final_report.must_fix) <= 3
           /\ final_report.must_fix =
                 (IF present[1] THEN <<all[1]>> ELSE <<>>)
                    \o (IF present[2] THEN <<all[2]>> ELSE <<>>)
                    \o (IF present[3] THEN <<all[3]>> ELSE <<>>)
           /\ (n = Len(final_agents) /\ internal_opinions = <<900, 100, 900>>) =>
                 final_report.must_fix = <<InternalMisalignment>>
           /\ (n = Len(final_agents) /\ internal_opinions = <<500, 500, 500>>) =>
                 final_report.must_fix = <<>>

\* C17 witness: the detector has run on a population in which two of the
\* checks fire at once: customers with a low mean opinion and the internal
\* team with opinions 0.9 and 0.1.
C17_Witness ==
    /\ final_report.computed
    /\ final_report.must_fix = <<LowCustomerAdoption, InternalMisalignment>>
    /\ \E i, j \in RoleIndices("internal_team") :
          final_agents[i].current_opinion = 900 /\ final_agents[j].current_opinion = 100

\* C18: after any number of process_feature calls on an agent, its memory has
\* at most 10 entries and equals, in order, the last min(10, n) reasonings
\* that were appended: the oldest entry is evicted first.
C18_MemoryIsLastTen ==
    LET n      == Len(reasoning_log)
        memory == agents[1][1].memory
    IN /\ Len(memory) <= MemoryCap
       /\ Len(memory) = Min(MemoryCap, n)
       /\ memory = SubSeq(reasoning_log, n - Min(MemoryCap, n) + 1, n)

\* C18 witness: more than 10 calls were made, an entry was evicted, and the
\* evicted entry differs from the one that is now the oldest in memory.
C18_Witness ==
    /\ Len(reasoning_log) > MemoryCap + 1
    /\ Len(agents[1][1].memory) = MemoryCap
    /\ reasoning_log[1] # agents[1][1].memory[1]
    /\ reasoning_log[Len(reasoning_log)] # reasoning_log[MemoryCap]

\* C19: every analysis the backend returns, from the language model or from the
\* fallback, spends between 0 and the agent's remaining attention budget, so
\* over any sequence of process_feature calls the budget never increases and
\* never falls below 0.
C19_SpendWithinBudget ==
    [][LET budget == agents[1][1].attention_tokens
           spent  == budget - agents'[1][1].attention_tokens
       IN /\ 0 <= spent
          /\ spent <= budget
          /\ agents'[1][1].attention_tokens >= 0]_vars

\* C20: analyze_feature_as_agent never raises to its caller. While a feature
\* is being processed, no task has failed; every completed task holds a
\* structured analysis for its (feature, agent) pair, which is the mock's
\* analysis whenever it is not the language model's, and always the mock's
\* when the language model is unavailable. Once the wait is over the round
\* executor holds one result for every agent.
C20_AlwaysAnAnalysis ==
    \A r \in Runs :
        /\ \A i \in 1..Len(run[r].tasks) :
              /\ run[r].tasks[i].st \in {"pending", "awaiting", "done"}
              /\ (run[r].tasks[i].st = "done" /\ run[r].pc = "gather") =>
                    LET analysis == run[r].tasks[i].analysis
                        feature  == run[r].brief[run[r].feature]
                        mock     == analyze_feature(
                                       feature, run[r].tasks[i].context,
                                       Rand(random_tape,
                                            r + 7 * run[r].round_num + 3 * run[r].feature + i))
                    IN /\ analysis.reasoning[1] \in {"llm", "mock"}
                       /\ analysis.reasoning[2] = feature.title
                       /\ analysis.reasoning[1] = "mock" => analysis = mock
                       /\ ~llm_available => analysis = mock
                       /\ run[r].tasks[i].result.agent_name = agents[r][i].name
                       /\ run[r].tasks[i].result.reasoning = analysis.reasoning
        /\ run[r].pc = "propagate" =>
              /\ Len(run[r].agent_results) = Len(agents[r])
              /\ \A i \in 1..Len(agents[r]) :
                    /\ run[r].agent_results[i].agent_name = agents[r][i].name
                    /\ run[r].agent_results[i].reasoning = run[r].tasks[i].analysis.reasoning

\* C20 witness: the language model is available and has answered nothing, and
\* the wait of a feature is over with every agent's result coming from the
\* fallback.
C20_Witness ==
    /\ llm_available
    /\ llm_answers = 0
    /\ \E r \in Runs :
          /\ run[r].pc = "propagate"
          /\ Len(run[r].tasks) > 1
          /\ \A i \in 1..Len(run[r].tasks) :
                /\ run[r].tasks[i].st = "done"
                /\ run[r].tasks[i].analysis.reasoning[1] = "mock"

\* C21: configure_agents on an existing session stores the configuration and
\* answers 200 'Agent configuration saved' exactly when the four percentages
\* sum to 100; otherwise it answers 400 'Agent percentages must sum to 100'
\* and changes nothing in the store; on an unknown session it answers 404 and
\* changes nothing. No other session is ever changed.
C21_ConfigureAgents ==
    [][response'.endpoint = "configure_agents" =>
         LET id     == response'.session_id
             config == response'.config
         IN /\ \A other \in RequestIds \ {id} : simulations'[other] = simulations[other]
            /\ IF ~simulations[id].exists
               THEN /\ response'.status = 404
                    /\ simulations' = simulations
               ELSE IF ConfigTotal(config) = 100
               THEN /\ response'.status = 200
                    /\ response'.detail = "Agent configuration saved"
                    /\ simulations' = [simulations EXCEPT ![id].agent_config = config]
               ELSE /\ response'.status = 400
                    /\ response'.detail = "Agent percentages must sum to 100"
                    /\ simulations' = simulations]_vars

\* C21 witness: a session holds a saved configuration, and the last request, a
\* configuration summing to less than 100 for that session, was refused.
C21_Witness ==
    /\ response.endpoint = "configure_agents"
    /\ response.status = 400
    /\ ConfigTotal(response.config) < 100
    /\ simulations[response.session_id].agent_config.saved
    /\ simulations[response.session_id].agent_config # response.config

\* C22: simulate on a session id that was never created answers 404 'Session
\* not found', and simulate on a session without a saved agent configuration
\* answers 400 'Agent configuration missing'; in both cases the session store
\* and the state of the simulators stay as they were (no simulation is run).
C22_SimulateRefused ==
    [][response'.endpoint = "simulate" =>
         LET id == response'.session_id
         IN /\ ~simulations[id].exists =>
                  /\ response'.status = 404
                  /\ response'.detail = "Session not found"
                  /\ simulations' = simulations
                  /\ simVars' = simVars
            /\ (simulations[id].exists /\ simulations[id].agent_config = NoConfig) =>
                  /\ response'.status = 400
                  /\ response'.detail = "Agent configuration missing"
                  /\ simulations' = simulations
                  /\ simVars' = simVars]_vars

\* C22 witness: simulate was refused with 400 on a session that exists and has
\* no configuration, while another id is still unknown.
C22_Witness ==
    /\ response.endpoint = "simulate"
    /\ response.status = 400
    /\ simulations[response.session_id].exists
    /\ simulations[response.session_id].agent_config = NoConfig
    /\ \E id \in SessionIds : ~simulations[id].exists

\* what get_report must answer for a session, given the simulate or rerun that
\* completed last on it
ReportAnswered(id) ==
    IF ~simulations[id].exists
    THEN response'.status = 404
    ELSE IF completed[id].present
    THEN /\ response'.status = 200
         /\ response'.body = completed[id]
    ELSE /\ response'.status = 400
         /\ response'.detail = "Simulation not completed"

\* C23: get_report answers 200 only if a simulate or rerun on the same session
\* completed earlier, and then returns the adoption score, objections and
\* must-fix list of the one that completed last; before that it answers 400
\* 'Simulation not completed' (404 for an unknown session); and a simulate on
\* a session with a saved configuration leaves the session in the state in
\* which get_report answers 200.
C23_ReportFollowsSimulation ==
    [][/\ response'.endpoint = "get_report" => ReportAnswered(response'.session_id)
       /\ (/\ response'.endpoint = "simulate"
           /\ simulations[response'.session_id].exists
           /\ simulations[response'.session_id].agent_config.saved) =>
              /\ response'.status = 200
              /\ simulations'[response'.session_id].simulation_result.present]_vars

\* C24: for percentages in 0..100 whose customer, competitor and influencer
\* values sum to at most 100, create_agent_population creates floor(p*20/100)
\* agents of each of these three roles and gives the remainder of the 20 to
\* internal_team whatever internal_team_percentage says; the agents come in
\* the order customer, competitor, influencer, internal, and the internal
\* agents take the sub-roles pm, sales, cx in turn.
C24_RoleCounts ==
    LET pc == pop_config.customer_percentage
        pk == pop_config.competitor_percentage
        pi == pop_config.influencer_percentage
        pt == pop_config.internal_team_percentage
        nc == (pc * 20) \div 100
        nk == (pk * 20) \div 100
        ni == (pi * 20) \div 100
        made == pop_result.agents
    IN (/\ pop_result.returned
        /\ {pc, pk, pi, pt} \subseteq 0..100
        /\ pc + pk + pi <= 100) =>
          /\ Len(made) = 20
          /\ \A j \in 1..20 :
                IF j <= nc THEN made[j].agent_type = "customer"
                ELSE IF j <= nc + nk THEN made[j].agent_type = "competitor"
                ELSE IF j <= nc + nk + ni THEN made[j].agent_type = "influencer"
                ELSE /\ made[j].agent_type = "internal_team"
                     /\ made[j].name[1] = <<"PM", "SALES", "CX">>[((j - nc - nk - ni - 1) % 3) + 1]

\* C24 witness: a population was created for 33/33/33 with an internal-team
\* percentage of 50: the counts are truncated and the two internal agents are
\* the remainder.
C24_Witness ==
    /\ pop_result.returned
    /\ pop_config.customer_percentage = 33
    /\ pop_config.competitor_percentage = 33
    /\ pop_config.influencer_percentage = 33
    /\ pop_config.internal_team_percentage = 50
    /\ Len(pop_result.agents) = 20
    /\ pop_result.agents[19].agent_type = "internal_team"
    /\ pop_result.agents[20].name[1] = "SALES"

\* run r is about to apply one predecessor to the agent it is visiting
AtPredecessor(r) ==
    /\ run[r].pc = "propagate"
    /\ run[r].i <= Len(agents[r])
    /\ run[r].k <= Len(run[r].influencers)

\* C25: propagation for one feature visits the agents in population order and,
\* for each agent, its predecessors one at a time. Each step sets the agent's
\* opinion to clamp(own + (P's - own) * weight(P -> agent) * 0.1, 0, 1), where
\* own is the opinion as the previous step left it and P's is the current
\* opinion of the predecessor P in the population; no other agent changes.
C25_ChainedPropagation ==
    [][\A r \in Runs :
         (AtPredecessor(r) /\ run'[r] # run[r]) =>
            LET i    == run[r].i
                self == agents[r][i]
                P    == run[r].influencers[run[r].k]
                w    == calculate_influence_flow(ig_edges, P, self.name)
            IN /\ run'[r].pc = "propagate"
               /\ run'[r].i = i
               /\ run'[r].k = run[r].k + 1
               /\ \E j \in 1..Len(agents[r]) :
                     /\ agents[r][j].name = P
                     /\ agents'[r][i].current_opinion =
                           Max(0, Min(Scale,
                               self.current_opinion
                                 + Trunc((agents[r][j].current_opinion - self.current_opinion) * w,
                                         10 * Scale)))
               /\ \A j \in 1..Len(agents[r]) : j # i => agents'[r][j] = agents[r][j]]_vars

\* the fields of an interaction record that propagation leaves alone
SameButImpact(a, b) ==
    /\ a.agent_name = b.agent_name
    /\ a.agent_type = b.agent_type
    /\ a.opinion = b.opinion
    /\ a.tokens_spent = b.tokens_spent
    /\ a.reasoning = b.reasoning

\* C26: every round result holds |features| x |agents| interaction records,
\* one per (agent, feature), feature by feature in the order of the feature
\* list and, within a feature, in population order; and the result that is
\* propagated and recorded for agent i is the one agent i's own analysis task
\* produced, in whatever order the tasks completed.
C26_RecordsInOrder ==
    \A r \in Runs :
        /\ run[r].pc = "propagate" =>
              /\ Len(run[r].agent_results) = Len(agents[r])
              /\ \A i \in 1..Len(agents[r]) :
                    /\ SameButImpact(run[r].agent_results[i], run[r].tasks[i].result)
                    /\ run[r].tasks[i].result =
                          InteractionRecord(
                              [agents[r][i] EXCEPT
                                 !.current_opinion = run[r].tasks[i].result.opinion],
                              run[r].tasks[i].analysis)
              /\ \A i \in 1..Len(run[r].feature_interactions) :
                    SameButImpact(run[r].feature_interactions[i], run[r].tasks[i].result)
        /\ IsLatest(r) =>
              \A h \in 1..Len(round_history) :
                 LET n       == Len(agents[r])
                     records == round_history[h].interactions
                 IN /\ Len(records) = Len(run[r].brief) * n
                    /\ \A f \in 1..Len(run[r].brief) : \A i \in 1..n :
                          /\ records[(f - 1) * n + i].agent_name = agents[r][i].name
                          /\ records[(f - 1) * n + i].agent_type = agents[r][i].agent_type
                          /\ records[(f - 1) * n + i].reasoning[2] = run[r].brief[f].title

\* C26 witness: a round over two features is recorded, and one of its records,
\* not the first of its feature, comes from the language model while the
\* others come from the fallback.
C26_Witness ==
    \E r \in Runs :
        /\ IsLatest(r)
        /\ Len(run[r].brief) = 2
        /\ Len(round_history) >= 1
        /\ Len(round_history[1].interactions) = 2 * Len(agents[r])
        /\ \E i \in 2..Len(agents[r]) :
              /\ round_history[1].interactions[i].reasoning[1] = "llm"
              /\ round_history[1].interactions[1].reasoning[1] = "mock"

\* C27: when two run_simulation calls on the shared simulator overlap, each
\* call returns a report whose round_history holds its own num_rounds rounds,
\* numbered 1..num_rounds, and the propagation of each call reads only agents
\* of its own population.
C27_OverlapKeepsRunsApart ==
    \A r \in Runs :
        /\ run[r].pc = "returned" =>
              /\ Len(run[r].report.round_history) = run[r].num_rounds
              /\ \A h \in 1..Len(run[r].report.round_history) :
                    run[r].report.round_history[h].round = h
        /\ AtPredecessor(r) =>
              LET name == run[r].influencers[run[r].k]
              IN /\ name \in DOMAIN sim_agents
                 /\ sim_agents[name][1] = r
        /\ run[r].pc # "raised"

\* the opinions held in the population of run r
OpinionsOf(heap, r) == {heap[r][j].current_opinion : j \in 1..Len(heap[r])}

\* C28: a propagation step never overshoots. The agent's opinion after the
\* step lies between its opinion before the step and the opinion of the
\* predecessor that was applied; the clamp does not alter the value (the
\* opinion moved by exactly the shift that was added to the influence
\* impact); and no opinion of the population leaves the range the opinions
\* spanned before the step.
C28_NoOvershoot ==
    [][\A r \in Runs :
         (AtPredecessor(r) /\ run'[r] # run[r] /\ run'[r].pc = "propagate") =>
            LET i    == run[r].i
                own  == agents[r][i].current_opinion
                new  == agents'[r][i].current_opinion
                name == run[r].influencers[run[r].k]
                weight == calculate_influence_flow(ig_edges, name, agents[r][i].name)
            IN /\ weight > 0 /\ weight <= Scale
               /\ \E j \in 1..Len(agents[r]) :
                     /\ agents[r][j].name = name
                     /\ Min(own, agents[r][j].current_opinion) <= new
                     /\ new <= Max(own, agents[r][j].current_opinion)
               /\ Abs(new - own) = run'[r].agent_results[i].influence_impact
                                      - run[r].agent_results[i].influence_impact
               /\ \A o \in OpinionsOf(agents', r) :
                     /\ \E lo \in OpinionsOf(agents, r) : lo <= o
                     /\ \E hi \in OpinionsOf(agents, r) : o <= hi]_vars

\* C28 witness: propagation has moved the agent being visited: its opinion is
\* no longer the one its analysis left, and it lies strictly inside [0, 1].
C28_Witness ==
    \E r \in Runs :
        /\ run[r].pc = "propagate"
        /\ run[r].i <= Len(agents[r])
        /\ run[r].k > 1
        /\ agents[r][run[r].i].current_opinion # run[r].tasks[run[r].i].result.opinion
        /\ agents[r][run[r].i].current_opinion > 0
        /\ agents[r][run[r].i].current_opinion < Scale

\* agent i of run r is among the top 20% of its population by influence score
InTopFifth(r, i) ==
    LET n      == Len(agents[r])
        higher == {j \in 1..n : agents[r][j].influence_score > agents[r][i].influence_score}
    IN Cardinality(higher) < Max(1, n \div 5)

\* C29: with the real-follower topology every edge points from a follower to
\* an influencer and propagation reads predecessors, so an agent outside the
\* top 20% by influence score has no predecessors: propagation is applied only
\* to agents of the top 20%, never changes a follower's opinion and adds
\* nothing to a follower's influence impact.
C29_FollowersUntouched ==
    network_topology = "real_follower" =>
        \A r \in Runs :
            /\ AtPredecessor(r) => InTopFifth(r, run[r].i)
            /\ run[r].pc = "propagate" =>
                  \A i \in 1..Len(agents[r]) :
                     (i <= run[r].i /\ ~InTopFifth(r, i)) =>
                        /\ get_influencers(ig_edges, agents[r][i].name) = <<>>
                        /\ run[r].agent_results[i].influence_impact
                              = run[r].tasks[i].result.influence_impact

\* C30: the engagement density of every report is 0. No interaction record of
\* a round names a target agent, so the set of agent pairs is empty however
\* many interactions there are, and the metric is 0 as well when there is no
\* interaction.
C30_EngagementDensityZero ==
    /\ \A h \in 1..Len(round_history) :
          \A k \in 1..Len(round_history[h].interactions) :
             "target_agent" \notin DOMAIN round_history[h].interactions[k]
    /\ \A r \in Runs :
          run[r].pc = "returned" => run[r].report.engagement_density = 0

\* C30 witness: a call has returned a report over a round with interaction
\* records of at least two different agents.
C30_Witness ==
    \E r \in Runs :
        /\ run[r].pc = "returned"
        /\ Len(run[r].report.round_history) >= 1
        /\ \E a, b \in 1..Len(run[r].report.round_history[1].interactions) :
              run[r].report.round_history[1].interactions[a].agent_name
                 # run[r].report.round_history[1].interactions[b].agent_name
        /\ run[r].report.engagement_density = 0

============================================================================
